---- MODULE Spec2Model ----
(***************************************************************************)
(* Model of src/sync_docs.py: a sitemap is fetched and filtered to the     *)
(* English pages (fetch_sitemap), one download_doc coroutine per retained  *)
(* URL is run under asyncio.gather behind an asyncio.Semaphore, and main   *)
(* prints a tally.                                                         *)
(*                                                                         *)
(* Strings are sequences of one-character strings, so that split, strip,   *)
(* rstrip, re.match and pathlib's joining are computed as Python computes  *)
(* them.                                                                   *)
(***************************************************************************)
EXTENDS Integers, Sequences, FiniteSets, TLC

VARIABLES
    pcMain,         \* position of main(): "start", "gather", "done", "aborted", "filtered"
    sitemapStatus,  \* HTTP status of the sitemap response (0: no response yet / none)
    locs,           \* text of the <loc> elements of the parsed sitemap, in document order
    urls,           \* the list fetch_sitemap returned
    semaphore,      \* asyncio.Semaphore._value
    pc,             \* pc[i]: position of the i-th download_doc coroutine
    fate,           \* fate[i]: what the network / filesystem did to the i-th download
    outcome,        \* outcome[i]: the tuple download_doc returned, <<>> before it returns
    wrote,          \* wrote[i]: the file the i-th download created or overwrote, <<>> if none
    files,          \* the output tree: set of <<filepath, "full" | "partial">>
    issued,         \* the markdown URLs a GET was issued for, in order of issue
    completed,      \* indices of the finished downloads, in completion order
    results,        \* what asyncio.gather returned to main
    printed         \* the summary main printed: [success, failed, listing]

vars == <<pcMain, sitemapStatus, locs, urls, semaphore, pc, fate, outcome, wrote,
          files, issued, completed, results, printed>>

----------------------------------------------------------------------------
(* Bounds of the model *)

\* longest sitemap (number of <loc> elements) of a full run
MaxLocs == 3

\* longest sitemap given to the filter alone
MaxFilterLocs == 3

\* longest sitemap of a run over the URLs that differ in their file names
MaxPathLocs == 2

\* size of the semaphore; the source's default is 10 (sync_docs.py:13), scaled
\* down here so that more downloads than slots exist
CONCURRENT_REQUESTS == 2

----------------------------------------------------------------------------
(* Program constants *)

\* "/docs/", the separator of url.split("/docs/")
Marker == <<"/", "d", "o", "c", "s", "/">>

\* the alternatives of the regular expression of line 31
LANG_CODES ==
    { <<"d","e">>, <<"e","s">>, <<"f","r">>, <<"i","d">>, <<"i","t">>,
      <<"j","a">>, <<"k","o">>, <<"p","t">>, <<"r","u">>,
      <<"z","h","-","C","N">>, <<"z","h","-","T","W">> }

\* Path("docs")
DOCS_DIR == << <<"d","o","c","s">> >>

MdSuffix == <<".", "m", "d">>

IndexName == <<"i","n","d","e","x">>

----------------------------------------------------------------------------
(* Python string operations *)

\* s.startswith(p)
StartsWith(s, p) == Len(p) <= Len(s) /\ SubSeq(s, 1, Len(p)) = p

\* s.find(sep) + 1: position of the first occurrence of sep in s, 0 if none
Find(s, sep) ==
    LET hits == { i \in 1..(Len(s) - Len(sep) + 1) : SubSeq(s, i, i + Len(sep) - 1) = sep }
    IN  IF hits = {} THEN 0 ELSE CHOOSE i \in hits : \A j \in hits : i <= j

\* sep in s
Contains(s, sep) == Find(s, sep) # 0

\* s.split(sep)[-1]: split scans left to right for non-overlapping occurrences
RECURSIVE SplitLast(_, _)
SplitLast(s, sep) ==
    LET k == Find(s, sep)
    IN  IF k = 0 THEN s ELSE SplitLast(SubSeq(s, k + Len(sep), Len(s)), sep)

\* s.lstrip(ch)
RECURSIVE LStrip(_, _)
LStrip(s, ch) == IF s # <<>> /\ Head(s) = ch THEN LStrip(Tail(s), ch) ELSE s

\* s.rstrip(ch)
RECURSIVE RStrip(_, _)
RStrip(s, ch) ==
    IF s # <<>> /\ s[Len(s)] = ch THEN RStrip(SubSeq(s, 1, Len(s) - 1), ch) ELSE s

\* s.strip(ch)
Strip(s, ch) == RStrip(LStrip(s, ch), ch)

\* s.split(ch) for a one-character separator: all the pieces, empty ones included
RECURSIVE SplitChar(_, _)
SplitChar(s, ch) ==
    LET k == Find(s, <<ch>>)
    IN  IF k = 0 THEN <<s>>
        ELSE <<SubSeq(s, 1, k - 1)>> \o SplitChar(SubSeq(s, k + 1, Len(s)), ch)

----------------------------------------------------------------------------
(* fetch_sitemap: the language filter *)

\* line 29 and line 47 (before strip): url.split("/docs/")[-1]
path_after_docs(url) == SplitLast(url, Marker)

\* a regular expression of line 31 without the trailing "/"
LangMatchNoSlash(path) == \E c \in LANG_CODES : StartsWith(path, c)

\* line 31: re.match(r"^(de|es|fr|id|it|ja|ko|pt|ru|zh-CN|zh-TW)/", path)
LangMatch(path) == \E c \in LANG_CODES : StartsWith(path, c \o <<"/">>)

\* lines 28-32: whether the loop appends url. A <loc> without text (None) and
\* an empty text are both falsy; both are the empty sequence here.
Retained(url) ==
    /\ url # <<>>
    /\ Contains(url, Marker)
    /\ ~LangMatch(path_after_docs(url))

\* lines 24-34: the loop over the <loc> elements
RECURSIVE fetch_sitemap(_)
fetch_sitemap(ls) ==
    IF ls = <<>> THEN <<>>
    ELSE (IF Retained(Head(ls)) THEN <<Head(ls)>> ELSE <<>>) \o fetch_sitemap(Tail(ls))

----------------------------------------------------------------------------
(* download_doc: the URL and file names *)

\* line 40: url.rstrip("/") + ".md"
md_url(url) == RStrip(url, "/") \o MdSuffix

\* lines 47-49: the name of the file, without suffix
doc_name(url) ==
    LET p == Strip(path_after_docs(url), "/")
    IN  IF p = <<>> THEN IndexName ELSE p

\* pathlib: the parts of a relative path string; empty and "." parts are dropped
PathParts(s) == SelectSeq(SplitChar(s, "/"), LAMBDA part : part # <<>> /\ part # <<".">>)

\* a file name that keeps only the last part of the path
filepath_flat(url) ==
    LET parts == PathParts(doc_name(url) \o MdSuffix)
    IN  DOCS_DIR \o <<parts[Len(parts)]>>

\* line 51: DOCS_DIR / f"{path_after_docs}.md", as the sequence of its parts
filepath(url) == DOCS_DIR \o PathParts(doc_name(url) \o MdSuffix)

----------------------------------------------------------------------------
(* The inputs: <loc> texts and sitemap bodies *)

Host == <<"h">>

U_none      == <<>>                                             \* a <loc> without text
U_nomark    == Host \o <<"/", "x">>                             \* h/x
U_root      == Host \o Marker                                   \* h/docs/
U_x         == Host \o Marker \o <<"x">>                        \* h/docs/x
U_xs        == Host \o Marker \o <<"x", "/">>                   \* h/docs/x/
U_a_x       == Host \o Marker \o <<"a", "/", "x">>              \* h/docs/a/x
U_a__x      == Host \o Marker \o <<"a", "/", "/", "x">>         \* h/docs/a//x
U_index     == Host \o Marker \o IndexName                      \* h/docs/index
U_de_x      == Host \o Marker \o <<"d", "e", "/", "x">>         \* h/docs/de/x
U_de        == Host \o Marker \o <<"d", "e">>                   \* h/docs/de
U_des       == Host \o Marker \o <<"d", "e", "s">>              \* h/docs/des
U_DE_x      == Host \o Marker \o <<"D", "E", "/", "x">>         \* h/docs/DE/x
U_zhCN_x    == Host \o Marker \o <<"z", "h", "-", "C", "N", "/", "x">>  \* h/docs/zh-CN/x
U_zh_x      == Host \o Marker \o <<"z", "h", "/", "x">>         \* h/docs/zh/x
U_x_de      == Host \o Marker \o <<"x", "/", "d", "e", "/">>    \* h/docs/x/de/
U_x_docs_de == Host \o Marker \o <<"x">> \o Marker \o <<"d", "e", "/", "x">>  \* h/docs/x/docs/de/x
U_de_docs_x == Host \o Marker \o <<"d", "e">> \o Marker \o <<"x">>            \* h/docs/de/docs/x
U_docsdocs  == Host \o Marker \o <<"d", "o", "c", "s", "/", "d", "e", "/", "x">>  \* h/docs/docs/de/x

\* the <loc> texts the filter is run on
FilterURLS ==
    { U_none, U_nomark, U_root, U_x, U_xs, U_a_x, U_index, U_de_x, U_de, U_des, U_DE_x,
      U_zhCN_x, U_zh_x, U_x_de, U_x_docs_de, U_de_docs_x, U_docsdocs, U_a__x }

\* the <loc> texts of a full run: two pages and a translated page
MainURLS == { U_x, U_a_x, U_de_x }

\* the <loc> texts of a run checked for progress: a page and a translated page
LiveURLS == { U_x, U_de_x }

\* the <loc> texts of a run over pages whose file names are compared
PathURLS == { U_x, U_xs, U_a_x, U_a__x, U_root, U_index }

\* all sequences over S of length at most n
SeqsUpTo(S, n) == UNION { [1..k -> S] : k \in 0..n }

FilterBodies == SeqsUpTo(FilterURLS, MaxFilterLocs)

MainBodies == SeqsUpTo(MainURLS, MaxLocs)

LiveBodies == SeqsUpTo(LiveURLS, MaxLocs)

PathBodies == SeqsUpTo(PathURLS, MaxPathLocs)

\* statuses the sitemap GET may return
SitemapStatuses == {200, 500}

\* non-200 statuses a markdown GET may return
FailStatuses == {404, 500}

----------------------------------------------------------------------------
(* State *)

NothingPrinted == [tally |-> FALSE, success |-> 0, failed |-> 0, listing |-> <<>>]

Init ==
    /\ pcMain = "start"
    /\ sitemapStatus = 0
    /\ locs = <<>>
    /\ urls = <<>>
    /\ semaphore = CONCURRENT_REQUESTS
    /\ pc = <<>>
    /\ fate = <<>>
    /\ outcome = <<>>
    /\ wrote = <<>>
    /\ files = {}
    /\ issued = <<>>
    /\ completed = <<>>
    /\ results = <<>>
    /\ printed = NothingPrinted

Tasks == DOMAIN pc

Holding == { i \in Tasks : pc[i] \in {"requesting", "reading"} }

----------------------------------------------------------------------------
(* main: the sitemap stage *)

\* lines 65-70: DOCS_DIR.mkdir, session.get or resp.text() raises; nothing catches it
SitemapTransportFails ==
    /\ pcMain = "start"
    /\ pcMain' = "aborted"
    /\ UNCHANGED <<sitemapStatus, locs, urls, semaphore, pc, fate, outcome, wrote,
                   files, issued, completed, results, printed>>

\* line 21: ET.fromstring raises ParseError on a body that is not well-formed XML
SitemapParseFails ==
    /\ pcMain = "start"
    /\ \E st \in SitemapStatuses : sitemapStatus' = st
    /\ pcMain' = "aborted"
    /\ UNCHANGED <<locs, urls, semaphore, pc, fate, outcome, wrote,
                   files, issued, completed, results, printed>>

\* lines 18-34 and 70-76: the body parses; the status of the response is never
\* read. The filtered list is returned, the semaphore is made and one
\* download_doc coroutine per URL is handed to gather.
SitemapParsed(bodies) ==
    /\ pcMain = "start"
    /\ \E st \in SitemapStatuses, body \in bodies :
         /\ sitemapStatus' = st
         /\ locs' = body
         /\ urls' = fetch_sitemap(body)
    /\ semaphore' = CONCURRENT_REQUESTS
    /\ pc' = [i \in 1..Len(urls') |-> "waiting"]
    /\ fate' = [i \in 1..Len(urls') |-> "none"]
    /\ outcome' = [i \in 1..Len(urls') |-> <<>>]
    /\ wrote' = [i \in 1..Len(urls') |-> <<>>]
    /\ pcMain' = "gather"
    /\ UNCHANGED <<files, issued, completed, results, printed>>

----------------------------------------------------------------------------
(* download_doc *)

\* an acquire that never waits for a free slot
CanAcquireAlways(v) == TRUE

\* line 39: async with semaphore proceeds when a slot is free and suspends the
\* coroutine otherwise
CanAcquire(v) == v > 0

\* an exit path that skips the release when the download failed
SemAfterExitLeak(v, ok) == IF ok THEN v + 1 ELSE v

\* an exit path that releases the slot a second time
SemAfterExitTwice(v, ok) == v + 2

\* line 39: leaving the async with block releases the slot, on every exit path
SemAfterExit(v, ok) == v + 1

\* an exception handler that reports success
ExceptOutcomeTrue(url) == <<url, TRUE>>

\* lines 58-60: the handler's return value
ExceptOutcome(url) == <<url, FALSE>>

\* lines 39-42: take a slot and issue the GET for the markdown URL. gather
\* starts the coroutines in the order of the list and the semaphore wakes its
\* waiters first-in first-out, so the slots are taken in launch order.
Acquire(i) ==
    /\ pcMain = "gather"
    /\ pc[i] = "waiting"
    /\ \A j \in 1..(i - 1) : pc[j] # "waiting"
    /\ CanAcquire(semaphore)
    /\ semaphore' = semaphore - 1
    /\ pc' = [pc EXCEPT ![i] = "requesting"]
    /\ issued' = Append(issued, md_url(urls[i]))
    /\ UNCHANGED <<pcMain, sitemapStatus, locs, urls, fate, outcome, wrote, files,
                   completed, results, printed>>

\* the return of download_doc: the tuple, and the release of the slot
Return(i, why, out, ok) ==
    /\ fate' = [fate EXCEPT ![i] = why]
    /\ outcome' = [outcome EXCEPT ![i] = out]
    /\ pc' = [pc EXCEPT ![i] = "done"]
    /\ semaphore' = SemAfterExit(semaphore, ok)
    /\ completed' = Append(completed, i)
    /\ UNCHANGED <<pcMain, sitemapStatus, locs, urls, issued, results, printed>>

\* lines 56-57: the response has a status other than 200
GetNon200(i) ==
    /\ pc[i] = "requesting"
    /\ \E st \in FailStatuses : Return(i, "status", <<urls[i], FALSE>>, FALSE)
    /\ UNCHANGED <<wrote, files>>

\* lines 42, 58-60: session.get raises
GetRaises(i) ==
    /\ pc[i] = "requesting"
    /\ Return(i, "exc", ExceptOutcome(urls[i]), FALSE)
    /\ UNCHANGED <<wrote, files>>

\* lines 43-44: the status is 200 and the body is being read
Get200(i) ==
    /\ pc[i] = "requesting"
    /\ pc' = [pc EXCEPT ![i] = "reading"]
    /\ UNCHANGED <<pcMain, sitemapStatus, locs, urls, semaphore, fate, outcome, wrote,
                   files, issued, completed, results, printed>>

\* lines 44, 58-60: resp.text() raises
ReadRaises(i) ==
    /\ pc[i] = "reading"
    /\ Return(i, "exc", ExceptOutcome(urls[i]), FALSE)
    /\ UNCHANGED <<wrote, files>>

\* the output tree after a write to path f that ends in state st
FilesAfterWrite(f, st) == { e \in files : e[1] # f } \cup { <<f, st>> }

\* lines 44-55: the body is read, the directories are made and the file is
\* written (created, or overwritten in full)
WriteOk(i) ==
    /\ pc[i] = "reading"
    /\ files' = FilesAfterWrite(filepath(urls[i]), "full")
    /\ wrote' = [wrote EXCEPT ![i] = filepath(urls[i])]
    /\ Return(i, "ok", <<urls[i], TRUE>>, TRUE)

\* lines 52-53, 58-60: mkdir raises, or write_text raises on opening the file:
\* no file is created
MkdirOrOpenRaises(i) ==
    /\ pc[i] = "reading"
    /\ Return(i, "exc", ExceptOutcome(urls[i]), FALSE)
    /\ UNCHANGED <<wrote, files>>

\* lines 53, 58-60: write_text opens the file for writing (creating or
\* truncating it) and then raises while writing or closing
WriteRaises(i) ==
    /\ pc[i] = "reading"
    /\ files' = FilesAfterWrite(filepath(urls[i]), "partial")
    /\ wrote' = [wrote EXCEPT ![i] = filepath(urls[i])]
    /\ Return(i, "write_exc", ExceptOutcome(urls[i]), FALSE)

----------------------------------------------------------------------------
(* main: gather and the summary *)

\* line 76: gather returns when every coroutine has returned
GatherDone == \A i \in Tasks : pc[i] = "done"

\* a result list that keeps the tuples of the successful downloads only
GatherResultsOkOnly ==
    SelectSeq([i \in 1..Len(urls) |-> outcome[i]], LAMBDA r : Len(r) = 2 /\ r[2])

\* results listed in the order the downloads finished
GatherCompletionOrder == [k \in 1..Len(completed) |-> outcome[completed[k]]]

\* line 76: gather's result list is in the order of its arguments
GatherResults == [i \in 1..Len(urls) |-> outcome[i]]

\* rs[i][2] where rs[i] is a returned tuple
IsOk(r) == Len(r) = 2 /\ r[2]

\* lines 85-87: the URLs of the failed results, in the order of the list
RECURSIVE FailedUrls(_)
FailedUrls(rs) ==
    IF rs = <<>> THEN <<>>
    ELSE (IF ~IsOk(Head(rs)) THEN <<Head(rs)[1]>> ELSE <<>>) \o FailedUrls(Tail(rs))

\* lines 76-87
Summary ==
    /\ pcMain = "gather"
    /\ GatherDone
    /\ results' = GatherResults
    /\ LET success == Cardinality({ i \in DOMAIN results' : IsOk(results'[i]) })
           failed  == Cardinality({ i \in DOMAIN results' : ~IsOk(results'[i]) })
       IN  printed' = [tally   |-> TRUE,
                       success |-> success,
                       failed  |-> failed,
                       listing |-> IF failed > 0 THEN FailedUrls(results') ELSE <<>>]
    /\ pcMain' = "done"
    /\ UNCHANGED <<sitemapStatus, locs, urls, semaphore, pc, fate, outcome, wrote,
                   files, issued, completed>>

----------------------------------------------------------------------------
(* Specifications *)

\* the steps of a run after the sitemap stage
Download ==
    \/ \E i \in Tasks : Acquire(i)
    \/ \E i \in Tasks : GetNon200(i)
    \/ \E i \in Tasks : GetRaises(i)
    \/ \E i \in Tasks : Get200(i)
    \/ \E i \in Tasks : ReadRaises(i)
    \/ \E i \in Tasks : WriteOk(i)
    \/ \E i \in Tasks : MkdirOrOpenRaises(i)
    \/ \E i \in Tasks : WriteRaises(i)

Next ==
    \/ SitemapTransportFails
    \/ SitemapParseFails
    \/ SitemapParsed(MainBodies)
    \/ Download
    \/ Summary

\* a full run
Spec == Init /\ [][Next]_vars

LiveNext ==
    \/ SitemapTransportFails
    \/ SitemapParseFails
    \/ SitemapParsed(LiveBodies)
    \/ Download
    \/ Summary

\* a full run in which the event loop keeps running whatever can run and every
\* request is eventually answered
LiveSpec == Init /\ [][LiveNext]_vars /\ WF_vars(LiveNext)

PathNext ==
    \/ SitemapTransportFails
    \/ SitemapParseFails
    \/ SitemapParsed(PathBodies)
    \/ Download
    \/ Summary

\* a full run over pages whose relative paths differ in separators only
PathSpec == Init /\ [][PathNext]_vars

\* the language filter alone, on a wider set of <loc> texts
FilterRun ==
    /\ pcMain = "start"
    /\ \E body \in FilterBodies :
         /\ locs' = body
         /\ urls' = fetch_sitemap(body)
    /\ pcMain' = "filtered"
    /\ UNCHANGED <<sitemapStatus, semaphore, pc, fate, outcome, wrote, files, issued,
                   completed, results, printed>>

FilterSpec == Init /\ [][FilterRun]_vars

----------------------------------------------------------------------------
(* Properties *)

\* the text of path up to its first "/" (all of it when it has none)
FirstSegment(path) ==
    LET slashes == { k \in 1..Len(path) : path[k] = "/" }
    IN  IF slashes = {} THEN path
        ELSE SubSeq(path, 1, (CHOOSE k \in slashes : \A m \in slashes : k <= m) - 1)

HasSlash(path) == \E k \in 1..Len(path) : path[k] = "/"

KeepIfSegmentIsNoCode(u) ==
    /\ Contains(u, Marker)
    /\ FirstSegment(path_after_docs(u)) \notin LANG_CODES

KeepIfNoCodeDirectory(u) ==
    /\ Contains(u, Marker)
    /\ ~(FirstSegment(path_after_docs(u)) \in LANG_CODES /\ HasSlash(path_after_docs(u)))

\* C1, as stated: the filter drops a URL exactly when the first path segment
\* after the /docs/ marker equals a language code, and keeps every other URL
\* that has the marker, in sitemap order.
C1_ExcludedIffSegmentIsCode ==
    pcMain = "filtered" => urls = SelectSeq(locs, KeepIfSegmentIsNoCode)

\* C1, amended: the filter drops a URL exactly when the first path segment
\* after the last /docs/ marker equals a language code and a "/" follows it;
\* every other URL that has the marker is kept, in sitemap order.
C1_ExcludedIffCodeDirectory ==
    pcMain = "filtered" => urls = SelectSeq(locs, KeepIfNoCodeDirectory)

\* a sitemap with a bare code (kept), a code directory (dropped) and a page
C1_Witness ==
    /\ pcMain = "filtered"
    /\ locs = <<U_des, U_de_x, U_de>>
    /\ urls = <<U_des, U_de>>

\* C2: at most CONCURRENT_REQUESTS downloads are between acquire and release.
C2_SlotBound == Cardinality(Holding) <= CONCURRENT_REQUESTS

\* every slot is taken while a further download waits
C2_Witness ==
    /\ Cardinality(Holding) = CONCURRENT_REQUESTS
    /\ \E i \in Tasks : pc[i] = "waiting"

\* C3: when main computes the summary, results holds exactly the tuple each
\* download returned, one per retained URL and for that URL, and the two
\* counts add up to the number of retained URLs.
C3_ExactFanIn ==
    pcMain = "done" =>
        /\ Len(results) = Len(urls)
        /\ \A i \in 1..Len(urls) :
              /\ results[i] = outcome[i]
              /\ results[i] \in { <<urls[i], TRUE>>, <<urls[i], FALSE>> }
        /\ printed.success + printed.failed = Len(urls)

\* a summary over a success, a non-200 status and an exception that did not
\* finish in launch order
C3_Witness ==
    /\ pcMain = "done"
    /\ fate = <<"status", "ok", "exc">>
    /\ completed = <<2, 1, 3>>

\* C4: after a sitemap response with a non-success status no download is
\* started, no markdown GET is issued and no file is written.
C4_NoDownloadAfterHttpError ==
    sitemapStatus \notin {0, 200} => (Tasks = {} /\ issued = <<>> /\ files = {})

C5_FailureIsLocal ==
    \A i \in Tasks : pc[i] = "done" => outcome[i] = <<urls[i], fate[i] = "ok">>

C5_SiblingsUntouched ==
    \A i \in Tasks :
        (pc[i] # "done" /\ pc'[i] = "done") =>
            /\ pcMain' = pcMain
            /\ \A j \in Tasks \ {i} : pc'[j] = pc[j] /\ outcome'[j] = outcome[j]

\* C5: a download that fails in any way returns (url, False) for its own URL;
\* the step in which it returns neither ends main nor changes the position or
\* the returned tuple of any other download, and a returned tuple of a
\* download depends on what happened to that download alone.
C5_FailureIsolated == [](C5_FailureIsLocal) /\ [][C5_SiblingsUntouched]_vars

\* a download failed while writing and a sibling succeeded after it
C5_Witness ==
    /\ Len(completed) >= 2
    /\ fate[completed[1]] = "write_exc"
    /\ fate[completed[2]] = "ok"
    /\ outcome[completed[2]] = <<urls[completed[2]], TRUE>>

\* C6: only a download that returns success creates or overwrites a file; a
\* download that returns failure creates none.
C6_NoFileOnFailure ==
    \A i \in Tasks : wrote[i] # <<>> => outcome[i] = <<urls[i], TRUE>>

\* C7: once the downloads are launched the tally is eventually printed,
\* however many of them fail, and it is printed only when every download has
\* returned its tuple.
C7_TallyEventuallyPrinted ==
    /\ (pcMain = "gather") ~> (pcMain = "done" /\ printed.tally)
    /\ [](printed.tally => \A i \in Tasks : pc[i] = "done" /\ outcome[i] # <<>>)

\* more downloads than slots, every one of them failed, and the tally is out
C7_Witness ==
    /\ printed.tally
    /\ Len(urls) > CONCURRENT_REQUESTS
    /\ printed.failed = Len(urls)

\* C8: the free slots and the downloads holding one always add up to the size
\* of the semaphore: every exit path gives back exactly the slot it took, and
\* when every download has returned all slots are free.
C8_SlotsBalanced ==
    /\ semaphore + Cardinality(Holding) = CONCURRENT_REQUESTS
    /\ (Tasks # {} /\ GatherDone) => semaphore = CONCURRENT_REQUESTS

\* all slots are free after a success, a non-200 status and an exception
C8_Witness ==
    /\ Len(urls) = 3
    /\ GatherDone
    /\ { fate[i] : i \in Tasks } = {"ok", "status", "exc"}
    /\ semaphore = CONCURRENT_REQUESTS

\* a relative path without empty, "." or ".." segments, so without leading,
\* trailing or doubled "/"
CleanPath(p) ==
    LET segs == SplitChar(p, "/")
    IN  \A k \in DOMAIN segs : segs[k] \notin { <<>>, <<".">>, <<".", ".">> }

BothWrote(i, j) == i # j /\ wrote[i] # <<>> /\ wrote[j] # <<>>

\* C9, as stated: two downloads whose relative paths after /docs/ are distinct
\* strings never write the same file.
C9_DistinctPathsDistinctFiles ==
    \A i, j \in Tasks :
        (BothWrote(i, j) /\ path_after_docs(urls[i]) # path_after_docs(urls[j]))
            => wrote[i] # wrote[j]

\* C9, amended: two downloads whose relative paths are distinct and have no
\* empty, "." or ".." segment never write the same file.
C9_CleanPathsDistinctFiles ==
    \A i, j \in Tasks :
        ( /\ BothWrote(i, j)
          /\ path_after_docs(urls[i]) # path_after_docs(urls[j])
          /\ CleanPath(path_after_docs(urls[i]))
          /\ CleanPath(path_after_docs(urls[j])) )
            => wrote[i] # wrote[j]

\* h/docs/x and h/docs/a/x were both written, to two files
C9_Witness ==
    \E i, j \in Tasks :
        /\ BothWrote(i, j)
        /\ urls[i] = U_x
        /\ urls[j] = U_a_x
        /\ files = { <<wrote[i], "full">>, <<wrote[j], "full">> }
        /\ Cardinality(files) = 2

\* the URLs of the failed downloads among order, in that order
FailedIn(order) ==
    LET f == SelectSeq(order, LAMBDA i : fate[i] # "ok")
    IN  [k \in 1..Len(f) |-> urls[f[k]]]

LaunchOrder == [i \in 1..Len(urls) |-> i]

\* C10, as stated: the failure listing names the failed URLs in the order in
\* which their downloads completed.
C10_ListingInCompletionOrder ==
    (printed.tally /\ printed.failed > 0) => printed.listing = FailedIn(completed)

\* C10, amended: the failure listing names exactly the failed URLs, in launch
\* (sitemap) order, whatever the order in which the downloads completed.
C10_ListingInLaunchOrder ==
    (printed.tally /\ printed.failed > 0) => printed.listing = FailedIn(LaunchOrder)

\* two failures that completed in the reverse of their launch order
C10_Witness ==
    /\ printed.tally
    /\ printed.failed >= 2
    /\ FailedIn(completed) # FailedIn(LaunchOrder)
    /\ printed.listing = FailedIn(LaunchOrder)

====
